---------------------------- MODULE Spec2Model ----------------------------
(***************************************************************************)
(* A model of slackv (src/slackv.go, the later of the two versions held in *)
(* that file, lines 550-1322): the reconnect loop of main, the receive     *)
(* loop and its frame handlers, the Identity Cache g_IdNameMap, the        *)
(* renderer printMessage and the text normaliser unescape.                 *)
(*                                                                         *)
(* Go strings are sequences of one-character strings, Go's nil error is    *)
(* NilError, a decoded JSON value is a tagged record (JStr, JObj, JArr,    *)
(* JBool, JNull) and a JSON object is a TLA+ record whose DOMAIN is the    *)
(* set of keys it holds.                                                   *)
(***************************************************************************)
EXTENDS Integers, Sequences, FiniteSets, TLC

VARIABLES
    pc,              \* position of the process (main loop, or the call under study)
    waitNS,          \* main: waitNS, in seconds
    lastError,       \* main: lastError
    err,             \* main: err
    g_IdNameMap,     \* the Identity Cache
    g_LastUser,      \* RenderState
    g_LastChannel,
    g_LastThreadTs,
    conns,           \* number of websocket connections that are open
    out,             \* lines written to stdout by the last frame handled
    calls,           \* history: printMessage calls made for the last frame handled
    logs,            \* history: did the last pass through L_Error call log.Print
    slept,           \* history: duration of the last time.Sleep
    fails,           \* history: failures since the last successful connect
    prevFail,        \* history: err of the failure before the current one
    cleared,         \* history: lastError as the last successful connect found it
    lastIn,          \* history: the last input (login response or frame)
    uParts,          \* unescape under study: the pieces the text is made of
    uText,           \* unescape under study: its argument
    uOut,            \* unescape under study: its result
    uAgain,          \* unescape under study: the result of unescape(uOut)
    eA, eB, eOut     \* errorEquals under study: arguments and result

vars == <<pc, waitNS, lastError, err, g_IdNameMap, g_LastUser, g_LastChannel,
          g_LastThreadTs, conns, out, calls, logs, slept, fails, prevFail, cleared,
          lastIn,
          uParts, uText, uOut, uAgain, eA, eB, eOut>>

mainVars == <<waitNS, lastError, err, conns, logs, slept, fails, prevFail, cleared>>
renderVars == <<g_LastUser, g_LastChannel, g_LastThreadTs, out, calls>>
unVars == <<uParts, uText, uOut, uAgain>>
eqVars == <<eA, eB, eOut>>

\* Go's nil error; every other error value has an id (which value it is) of
\* at least 1 and a message (what Error() returns)
NilError == [id |-> 0, msg |-> "nil"]

\* no input yet
NoInput == [kind |-> "none"]

-----------------------------------------------------------------------------
(* Strings *)

Sub(s, i, j) == IF j < i THEN <<>> ELSE SubSeq(s, i, j)

RECURSIVE Flatten(_)
Flatten(ss) == IF ss = <<>> THEN <<>> ELSE Head(ss) \o Flatten(Tail(ss))

\* least k >= i at which s[k] is not in class, Len(s)+1 if there is none
RECURSIVE RunEnd(_, _, _)
RunEnd(s, i, excluded) ==
    IF i > Len(s) \/ s[i] \in excluded THEN i ELSE RunEnd(s, i + 1, excluded)

NoMatch == [found |-> FALSE]

\* the id allowed to be empty, as `<SIGIL([^>|]*)(\|([^>]+))?>` would match
MatchAt_star(sigil, s, i) ==
    IF ~(i + 2 <= Len(s) /\ s[i] = "<" /\ s[i + 1] = sigil) THEN NoMatch
    ELSE LET idEnd == RunEnd(s, i + 2, {">", "|"}) IN
         IF idEnd > Len(s) THEN NoMatch
         ELSE IF s[idEnd] = ">"
              THEN [found |-> TRUE, start |-> i, end |-> idEnd,
                    g1 |-> Sub(s, i + 2, idEnd - 1), g2 |-> <<>>, g3 |-> <<>>]
              ELSE LET labEnd == RunEnd(s, idEnd + 1, {">"}) IN
                   IF labEnd = idEnd + 1 \/ labEnd > Len(s) THEN NoMatch
                   ELSE [found |-> TRUE, start |-> i, end |-> labEnd,
                         g1 |-> Sub(s, i + 2, idEnd - 1),
                         g2 |-> Sub(s, idEnd, labEnd - 1),
                         g3 |-> Sub(s, idEnd + 1, labEnd - 1)]

\* A match of `<SIGIL([^>|]+)(\|([^>]+))?>` anchored at position i of s.
\* The classes exclude the character that must follow them, so the greedy
\* runs are the only candidates.
MatchAt(sigil, s, i) ==
    IF ~(i + 3 <= Len(s) /\ s[i] = "<" /\ s[i + 1] = sigil) THEN NoMatch
    ELSE LET idEnd == RunEnd(s, i + 2, {">", "|"}) IN
         IF idEnd = i + 2 \/ idEnd > Len(s) THEN NoMatch
         ELSE IF s[idEnd] = ">"
              THEN [found |-> TRUE, start |-> i, end |-> idEnd,
                    g1 |-> Sub(s, i + 2, idEnd - 1), g2 |-> <<>>, g3 |-> <<>>]
              ELSE LET labEnd == RunEnd(s, idEnd + 1, {">"}) IN
                   IF labEnd = idEnd + 1 \/ labEnd > Len(s) THEN NoMatch
                   ELSE [found |-> TRUE, start |-> i, end |-> labEnd,
                         g1 |-> Sub(s, i + 2, idEnd - 1),
                         g2 |-> Sub(s, idEnd, labEnd - 1),
                         g3 |-> Sub(s, idEnd + 1, labEnd - 1)]

\* the least element of a non-empty set of positions
FirstOf(positions) == CHOOSE k \in positions : \A j \in positions : k <= j

\* the positions at or after i at which a match starts
MatchStarts(sigil, s, i) ==
    {k \in i..Len(s) : s[k] = "<" /\ MatchAt(sigil, s, k).found}

\* leftmost match starting at or after position i
FindFrom(sigil, s, i) ==
    IF MatchStarts(sigil, s, i) = {} THEN NoMatch
    ELSE MatchAt(sigil, s, FirstOf(MatchStarts(sigil, s, i)))

\* Regexp.ReplaceAllString(s, prefix + "$group"): every non-overlapping
\* match, left to right, replaced; the replacement is not scanned again.
RECURSIVE ReplaceAllFrom(_, _, _, _, _)
ReplaceMatch(sigil, s, i, prefix, group, m) ==
    IF ~m.found THEN Sub(s, i, Len(s))
    ELSE Sub(s, i, m.start - 1) \o prefix
         \o (CASE group = 1 -> m.g1 [] group = 2 -> m.g2 [] OTHER -> m.g3)
         \o ReplaceAllFrom(sigil, s, m.end + 1, prefix, group)

ReplaceAllFrom(sigil, s, i, prefix, group) ==
    ReplaceMatch(sigil, s, i, prefix, group, FindFrom(sigil, s, i))


-----------------------------------------------------------------------------
(* html.UnescapeString, for the entities the modelled texts can hold *)

AlnumChars ==
    {"a","b","c","d","e","f","g","h","i","j","k","l","m","n","o","p","q","r",
     "s","t","u","v","w","x","y","z","A","B","C","D","E","F","G","H","I","J",
     "K","L","M","N","O","P","Q","R","S","T","U","V","W","X","Y","Z",
     "0","1","2","3","4","5","6","7","8","9"}

RECURSIVE AlnumEnd(_, _)
AlnumEnd(s, i) ==
    IF i > Len(s) \/ s[i] \notin AlnumChars THEN i ELSE AlnumEnd(s, i + 1)

\* the entries of html's entity table over the letters a, g, l, m, p, t
EntityNames ==
    {<<"l","t",";">>, <<"l","t">>, <<"g","t",";">>, <<"g","t">>,
     <<"a","m","p",";">>, <<"a","m","p">>}

EntityChar(name) ==
    CASE name[1] = "l" -> "<" [] name[1] = "g" -> ">" [] OTHER -> "&"

LongestEntityWithoutSemicolon == 6

\* the longest prefix of name, of length maxLen down to 2, that is an entity; 0 if none
RECURSIVE EntityPrefix(_, _)
EntityPrefix(name, j) ==
    IF j <= 1 THEN 0
    ELSE IF Sub(name, 1, j) \in EntityNames THEN j ELSE EntityPrefix(name, j - 1)

\* the positions at or after i that hold '&'
Amps(s, i) == {k \in i..Len(s) : s[k] = "&"}

RECURSIVE HtmlUnescapeFrom(_, _)

\* s from the '&' at position i on
HtmlUnescapeAmp(s, i) ==
    IF i = Len(s) \/ s[i + 1] = "#" THEN <<"&">> \o HtmlUnescapeFrom(s, i + 1)
    ELSE LET k == AlnumEnd(s, i + 1)
             last == IF k <= Len(s) /\ s[k] = ";" THEN k ELSE k - 1
             name == Sub(s, i + 1, last)
             cap == IF Len(name) - 1 > LongestEntityWithoutSemicolon
                    THEN LongestEntityWithoutSemicolon ELSE Len(name) - 1
             j == EntityPrefix(name, cap)
         IN  IF name = <<>> THEN <<"&">> \o HtmlUnescapeFrom(s, i + 1)
             ELSE IF name \in EntityNames
                  THEN <<EntityChar(name)>> \o HtmlUnescapeFrom(s, last + 1)
             ELSE IF j > 0
                  THEN <<EntityChar(name)>> \o HtmlUnescapeFrom(s, i + j + 1)
             ELSE Sub(s, i, last) \o HtmlUnescapeFrom(s, last + 1)

\* the text up to the next '&' is copied
HtmlUnescapeFrom(s, i) ==
    IF Amps(s, i) = {} THEN Sub(s, i, Len(s))
    ELSE Sub(s, i, FirstOf(Amps(s, i)) - 1) \o HtmlUnescapeAmp(s, FirstOf(Amps(s, i)))

HtmlUnescapeString(s) == HtmlUnescapeFrom(s, 1)

-----------------------------------------------------------------------------
(* The Identity Cache and unescape *)

\* g_IdNameMap[id]: a Go map read, "" for a key the map does not hold
MapGet(map, id) == IF id \in DOMAIN map THEN map[id] ELSE <<>>

MapPut(map, id, name) ==
    [k \in DOMAIN map \cup {id} |-> IF k = id THEN name ELSE map[k]]

EmptyMap == [k \in {} |-> <<>>]

MaxExpand == 8

ChannelTemplateGroup == 3
KeywordTemplateGroup == 2

\* one mention replaced per iteration, the result scanned again from its start
RECURSIVE MentionLoop(_, _, _)
MentionStep(text, map, fuel, m) ==
    IF ~m.found THEN [text |-> text, returns |-> TRUE]
    ELSE IF fuel = 0 THEN [text |-> text, returns |-> FALSE]
    ELSE MentionLoop(Sub(text, 1, m.start - 1) \o <<"@">> \o MapGet(map, m.g1)
                         \o Sub(text, m.end + 1, Len(text)),
                     map, fuel - 1)

MentionLoop(text, map, fuel) == MentionStep(text, map, fuel, FindFrom("@", text, 1))

ExpandChannels(text) == ReplaceAllFrom("#", text, 1, <<"#">>, ChannelTemplateGroup)

ExpandKeywords(text) == ReplaceAllFrom("!", text, 1, <<"@">>, KeywordTemplateGroup)

\* the label in place of the cached name, as a "@$3" template would give
ExpandMentions_label(text, map) ==
    [text |-> ReplaceAllFrom("@", text, 1, <<"@">>, 3), returns |-> TRUE]

ExpandMentions(text, map) == MentionLoop(text, map, MaxExpand)

\* the entities left as they are
Decoded_raw(r) == r

\* [text, returns]: returns is FALSE when the mention loop does not end
\* within MaxExpand iterations
Decoded(r) == [text |-> HtmlUnescapeString(r.text), returns |-> r.returns]

unescape(text, map) == Decoded(ExpandMentions(ExpandKeywords(ExpandChannels(text)), map))

-----------------------------------------------------------------------------
(* unescape under study: the texts and caches it is applied to *)

\* a reference that carries no label (a label is never empty)
NoLabel == <<>>

Chan(id, label) == [k |-> "chan", id |-> id, label |-> label]
Mention(id, label) == [k |-> "mention", id |-> id, label |-> label]
Keyword(id, label) == [k |-> "keyword", id |-> id, label |-> label]
\* a user-group mention <!subteam^ID> or <!subteam^ID|label>
Subteam(id, label) == [k |-> "subteam", id |-> id, label |-> label]
Raw(s) == [k |-> "raw", s |-> s]

Sigil(part) ==
    CASE part.k = "chan" -> "#" [] part.k = "mention" -> "@" [] OTHER -> "!"

SubteamPrefix == <<"s","u","b","t","e","a","m","^">>

\* the markup a piece stands for, as Slack sends it
Surface(part) ==
    IF part.k = "raw" THEN part.s
    ELSE <<"<", Sigil(part)>> \o (IF part.k = "subteam" THEN SubteamPrefix ELSE <<>>)
         \o part.id
         \o (IF part.label = NoLabel THEN <<>> ELSE <<"|">> \o part.label) \o <<">">>

RECURSIVE TextOf(_)
TextOf(parts) ==
    IF parts = <<>> THEN <<>> ELSE Surface(Head(parts)) \o TextOf(Tail(parts))

MaxParts == 3

sG == <<"G">>
sU == <<"U">>
sS == <<"S">>
sHere == <<"h","e","r","e">>
sFoo == <<" ","f","o","o">>

UnParts ==
    {Chan(sG, NoLabel), Chan(sG, <<"t">>), Mention(sU, NoLabel), Mention(sU, <<"t">>),
     Keyword(sHere, NoLabel), Keyword(sHere, sHere),
     Subteam(sS, NoLabel), Subteam(sS, <<"@","t","m">>),
     Raw(sFoo), Raw(<<"<","@">>), Raw(<<">">>), Raw(<<"&","l","t",";">>),
     Raw(<<"&","a","m","p",";","l","t",";">>)}

UnCaches ==
    {EmptyMap,
     [k \in {sG, sU, sS} |->
         CASE k = sG -> <<"g","r","p">> [] k = sU -> <<"u","s","r">> [] OTHER -> <<"t","m">>]}

sG01234 == <<"G","0","1","2","3","4">>
sTestGroup == <<"t","e","s","t","_","g","r","o","u","p">>
sU01234 == <<"U","0","1","2","3","4">>
sTestUser == <<"t","e","s","t","_","u","s","e","r">>

sS1A2B3C4D == <<"S","1","A","2","B","3","C","4","D">>
sHogePiyo == <<"h","o","g","e","-","p","i","y","o">>

\* the inputs of TestUnescape1 to TestUnescape4
LiteralCases ==
    {[map |-> [k \in {sG01234} |-> sTestGroup], parts |-> <<Chan(sG01234, sTestGroup), Raw(sFoo)>>],
     [map |-> [k \in {sG01234} |-> sTestGroup], parts |-> <<Chan(sG01234, NoLabel), Raw(sFoo)>>],
     [map |-> [k \in {sU01234} |-> sTestUser], parts |-> <<Mention(sU01234, sTestUser), Raw(sFoo)>>],
     [map |-> [k \in {sU01234} |-> sTestUser], parts |-> <<Mention(sU01234, NoLabel), Raw(sFoo)>>],
     [map |-> EmptyMap, parts |-> <<Keyword(sHere, sHere), Raw(sFoo)>>],
     [map |-> EmptyMap, parts |-> <<Keyword(sHere, NoLabel), Raw(sFoo)>>],
     [map |-> [k \in {sS1A2B3C4D} |-> sHogePiyo],
      parts |-> <<Subteam(sS1A2B3C4D, <<"@">> \o sHogePiyo), Raw(sFoo)>>],
     [map |-> [k \in {sS1A2B3C4D} |-> sHogePiyo],
      parts |-> <<Raw(<<"@">> \o sHogePiyo), Raw(sFoo)>>]}

UnCases ==
    {[map |-> m, parts |-> p] :
        m \in UnCaches, p \in UNION {[1..n -> UnParts] : n \in 0..MaxParts}}
    \cup LiteralCases

\* the variables of main and of the renderer, while a single call is studied
Parked ==
    /\ waitNS = 1 /\ lastError = NilError /\ err = NilError /\ conns = 0
    /\ logs = FALSE /\ slept = 0 /\ fails = 0 /\ prevFail = NilError /\ lastIn = NoInput
    /\ cleared = NilError
    /\ g_LastUser = <<>> /\ g_LastChannel = <<>> /\ g_LastThreadTs = 0
    /\ out = <<>> /\ calls = 0

InitUn ==
    /\ pc = "unescape"
    /\ \E c \in UnCases :
          /\ g_IdNameMap = c.map
          /\ uParts = c.parts
          /\ uText = TextOf(c.parts)
    /\ uOut = <<>> /\ uAgain = <<>>
    /\ eA = NilError /\ eB = NilError /\ eOut = FALSE
    /\ Parked

\* text = unescape(text), slackv.go:1257
UnescapeCall ==
    /\ pc = "unescape"
    /\ LET r == unescape(uText, g_IdNameMap) IN
          /\ uOut' = r.text
          /\ pc' = IF r.returns THEN "unescape_done" ELSE "unescape_loop"
    /\ UNCHANGED <<mainVars, renderVars, g_IdNameMap, lastIn, uParts, uText, uAgain, eqVars>>

\* unescape applied to its own result
UnescapeAgain ==
    /\ pc = "unescape_done"
    /\ LET r == unescape(uOut, g_IdNameMap) IN
          /\ uAgain' = r.text
          /\ pc' = IF r.returns THEN "unescape_twice" ELSE "unescape_loop"
    /\ UNCHANGED <<mainVars, renderVars, g_IdNameMap, lastIn, uParts, uText, uOut, eqVars>>

NextUn == UnescapeCall \/ UnescapeAgain

SpecUn == InitUn /\ [][NextUn]_vars

IsPlain(part) == part.k = "raw" /\ part.s = sFoo

\* C9 (as claimed): every channel reference <#ID> or <#ID|label> comes out
\* as '#' followed by the Identity Cache's name for ID, whatever the label.
ChannelText(part, map) ==
    IF part.k = "chan" THEN <<"#">> \o MapGet(map, part.id) ELSE part.s

RECURSIVE ChannelsResolved(_, _)
ChannelsResolved(parts, map) ==
    IF parts = <<>> THEN <<>>
    ELSE ChannelText(Head(parts), map) \o ChannelsResolved(Tail(parts), map)

C9_ChannelNameFromCache ==
    (/\ pc = "unescape_done"
     /\ \A i \in 1..Len(uParts) :
           \/ IsPlain(uParts[i])
           \/ uParts[i].k = "chan" /\ uParts[i].id \in DOMAIN g_IdNameMap)
    => uOut = ChannelsResolved(uParts, g_IdNameMap)

\* C10: every user mention <@ID> or <@ID|label>, however many the text
\* holds, comes out as '@' followed by the Identity Cache's name for ID; the
\* label is ignored.
MentionText(part, map) ==
    IF part.k = "mention" THEN <<"@">> \o MapGet(map, part.id) ELSE part.s

RECURSIVE MentionsResolved(_, _)
MentionsResolved(parts, map) ==
    IF parts = <<>> THEN <<>>
    ELSE MentionText(Head(parts), map) \o MentionsResolved(Tail(parts), map)

C10_MentionNameFromCache ==
    (/\ pc = "unescape_done"
     /\ \A i \in 1..Len(uParts) :
           \/ IsPlain(uParts[i])
           \/ uParts[i].k = "mention" /\ uParts[i].id \in DOMAIN g_IdNameMap)
    => uOut = MentionsResolved(uParts, g_IdNameMap)

\* two mentions in one text, one with a label that is not the cached name
C10_Witness ==
    /\ pc = "unescape_done"
    /\ Len(uParts) = 3
    /\ uParts[1] = Mention(sU, <<"t">>) /\ uParts[2] = Raw(sFoo) /\ uParts[3] = Mention(sU, NoLabel)
    /\ sU \in DOMAIN g_IdNameMap
    /\ uOut = <<"@","u","s","r"," ","f","o","o","@","u","s","r">>

\* TestUnescape2's two texts
C10_WitnessLiteral ==
    /\ pc = "unescape_done"
    /\ uText = <<"<","@">> \o sU01234 \o <<"|">> \o sTestUser \o <<">">> \o sFoo
    /\ uOut = <<"@">> \o sTestUser \o sFoo

-----------------------------------------------------------------------------
(* errorEquals *)

\* the two compared as values, messages never looked at
errorEquals_identity(a, b) == a = b

\* a.Error() == b.Error() for two errors, a == b when either is nil
errorEquals(a, b) ==
    IF a # NilError /\ b # NilError THEN a.msg = b.msg ELSE a = b

LoginErrMsgs == {"Post rtm.start: no such host", "invalid character '<'"}
DialErrMsgs == {"websocket.Dial: malformed ws or wss URL", "websocket.Dial: bad status"}
ReceiveErrMsgs == {"EOF", "connection reset by peer"}
ErrMsgs == LoginErrMsgs \cup DialErrMsgs \cup ReceiveErrMsgs

\* how many distinct error values with one message are told apart
MaxErrIds == 2

ErrValues == {NilError} \cup {[id |-> i, msg |-> m] : i \in 1..MaxErrIds, m \in ErrMsgs}

InitEq ==
    /\ pc = "errorEquals"
    /\ eA \in ErrValues /\ eB \in ErrValues /\ eOut = FALSE
    /\ g_IdNameMap = EmptyMap
    /\ uParts = <<>> /\ uText = <<>> /\ uOut = <<>> /\ uAgain = <<>>
    /\ Parked

\* errorEquals(err, lastError), slackv.go:731
ErrorEqualsCall ==
    /\ pc = "errorEquals"
    /\ eOut' = errorEquals(eA, eB)
    /\ pc' = "errorEquals_done"
    /\ UNCHANGED <<mainVars, renderVars, g_IdNameMap, lastIn, unVars, eA, eB>>

NextEq == ErrorEqualsCall

SpecEq == InitEq /\ [][NextEq]_vars

\* C6: errorEquals is false when exactly one argument is nil, true for
\* (nil, nil), and for two non-nil errors true exactly when their messages
\* are equal, also when the two are distinct error values.
C6_ErrorEquals ==
    pc = "errorEquals_done" =>
        /\ (eA = NilError /\ eB = NilError) => eOut
        /\ (eA = NilError /\ eB # NilError) => ~eOut
        /\ (eA # NilError /\ eB = NilError) => ~eOut
        /\ (eA # NilError /\ eB # NilError) => (eOut <=> eA.msg = eB.msg)

\* two distinct error values with one message, as in TestErrorEquals
C6_Witness ==
    /\ pc = "errorEquals_done"
    /\ eA # NilError /\ eB # NilError /\ eA.id # eB.id /\ eA.msg = eB.msg
    /\ eOut

-----------------------------------------------------------------------------
(* Decoded JSON (interface{}) and the field getters *)

JStr(s) == [t |-> "str", s |-> s]
JObj(o) == [t |-> "obj", o |-> o]
JArr(a) == [t |-> "arr", a |-> a]
JBool(b) == [t |-> "bool", b |-> b]
JNull == [t |-> "null"]

Has(m, k) == k \in DOMAIN m

\* v, exist := m[k].(T): exist
IsA(m, k, t) == Has(m, k) /\ m[k].t = t

\* if v, exist := m[k]; exist { v.(T) }: the assertion panics
FieldPanics(m, k, t) == Has(m, k) /\ m[k].t # t

Digits == {"0","1","2","3","4","5","6","7","8","9"}

DigitValue(c) ==
    CASE c = "0" -> 0 [] c = "1" -> 1 [] c = "2" -> 2 [] c = "3" -> 3 [] c = "4" -> 4
      [] c = "5" -> 5 [] c = "6" -> 6 [] c = "7" -> 7 [] c = "8" -> 8 [] OTHER -> 9

RECURSIVE DecimalValue(_, _)
DecimalValue(s, acc) ==
    IF s = <<>> THEN acc ELSE DecimalValue(Tail(s), 10 * acc + DigitValue(Head(s)))

\* int64(f) for f, _ := strconv.ParseFloat(s, 64), s a string of digits; a
\* string that is no number gives 0, the error being dropped
ParseTs(s) ==
    IF s # <<>> /\ \A i \in 1..Len(s) : s[i] \in Digits THEN DecimalValue(s, 0) ELSE 0

getChannel(msg, map) ==
    IF IsA(msg, "channel", "str") THEN MapGet(map, msg.channel.s) ELSE <<>>

getUserType(msg) ==
    (IF Has(msg, "bot_id") THEN <<"[","b","o","t","]">> ELSE <<>>)
    \o (IF Has(msg, "app_id") THEN <<"[","a","p","p","]">> ELSE <<>>)

getUser(msg, map) ==
    IF IsA(msg, "user", "str") THEN MapGet(map, msg.user.s) ELSE <<>>

getBot(msg, map) ==
    IF IsA(msg, "bot_id", "str") THEN MapGet(map, msg.bot_id.s) ELSE <<>>

getText(msg) == IF IsA(msg, "text", "str") THEN msg.text.s ELSE <<>>

getTimestamp(msg) == IF IsA(msg, "ts", "str") THEN ParseTs(msg.ts.s) ELSE 0

getThreadTs(msg) == IF IsA(msg, "thread_ts", "str") THEN ParseTs(msg.thread_ts.s) ELSE 0

getTitle(msg) == IF IsA(msg, "title", "str") THEN msg.title.s ELSE <<>>

isPreviewTruncated(msg) ==
    IF IsA(msg, "preview_is_truncated", "bool") THEN msg.preview_is_truncated.b ELSE FALSE

Spaces == {" ", "\n", "\t"}

RECURSIVE TrimLeft(_)
TrimLeft(s) == IF s # <<>> /\ Head(s) \in Spaces THEN TrimLeft(Tail(s)) ELSE s

RECURSIVE TrimRight(_)
TrimRight(s) ==
    IF s # <<>> /\ s[Len(s)] \in Spaces THEN TrimRight(Sub(s, 1, Len(s) - 1)) ELSE s

TrimSpace(s) == TrimRight(TrimLeft(s))

\* "\033[44m" + strings.TrimSpace(title) + "\033[0m\n"
Boxed(title) == <<"ESC[44m">> \o TrimSpace(title) \o <<"ESC[0m", "\n">>

TruncateLen == 1000

Ellipsis == <<".",".",".">>

\* [text, title] of one attachment
getAttachmentText(attachment) ==
    LET title ==
            (IF IsA(attachment, "service_name", "str")
             THEN attachment.service_name.s \o <<":"," ">> ELSE <<>>)
            \o (IF IsA(attachment, "author_name", "str")
                THEN attachment.author_name.s \o <<" ">> ELSE <<>>)
            \* slackv.go:1195-1197 assigns to the title its own if declares,
            \* so attachment["title"] never reaches the header
            \o (IF IsA(attachment, "footer", "str")
                THEN <<" ","(">> \o attachment.footer.s \o <<")"," ">> ELSE <<>>)
        text ==
            IF IsA(attachment, "text", "str") THEN attachment.text.s
            ELSE IF IsA(attachment, "fallback", "str") THEN attachment.fallback.s
            ELSE <<>>
    IN  [title |-> IF Len(title) > 0 THEN Boxed(title) ELSE <<>>,
         text |-> IF Len(text) > TruncateLen
                  THEN Sub(text, 1, TruncateLen) \o Ellipsis ELSE text]

\* attachments[0] is evaluated on an array that holds nothing
AttachmentsPanics(msg) == IsA(msg, "attachments", "arr") /\ Len(msg.attachments.a) = 0

HasAttachment(msg) ==
    /\ IsA(msg, "attachments", "arr")
    /\ Len(msg.attachments.a) > 0
    /\ msg.attachments.a[1].t = "obj"

getAttachmentsText(msg) ==
    IF HasAttachment(msg) THEN getAttachmentText(msg.attachments.a[1].o)
    ELSE [title |-> <<>>, text |-> <<>>]

-----------------------------------------------------------------------------
(* The renderer *)

\* g_Config.Notification, fixed once loadConfig has read it
MuteChannels == {<<"s","p","a","m">>}
MuteUsers == {<<"t","r","o","l","l">>}
\* g_NotificationPatterns: patterns that are plain words
NotificationPatterns == {<<"f","o","o">>}

\* no keyword ever equal
equalsAnyKeywords_never(text, keywords) == FALSE

equalsAnyKeywords(text, keywords) == \E keyword \in keywords : text = keyword

Contains(text, word) ==
    \E i \in 1..(Len(text) - Len(word) + 1) : Sub(text, i, i + Len(word) - 1) = word

matchAnyPatterns(text, patterns) == \E pattern \in patterns : Contains(text, pattern)

\* What a handler works on: the Identity Cache, RenderState, the lines
\* written so far, and whether the goroutine still runs ("ok"), has
\* panicked ("panic") or spins in unescape ("hang").
World(map, user, channel, threadTs) ==
    [map |-> map, lastUser |-> user, lastChannel |-> channel,
     lastThreadTs |-> threadTs, out |-> <<>>, calls |-> 0, status |-> "ok"]

Panic(w) == [w EXCEPT !.status = "panic"]

HeaderLine(blank, who, channel, timestamp, threadTs) ==
    [kind |-> "header", blank |-> blank, who |-> who, channel |-> channel,
     ts |-> timestamp, at |-> threadTs]

BodyLine(text, annotation) ==
    [kind |-> "body", text |-> text, annotation |-> annotation]

\* the thread timestamp not looked at, as in the earlier printMessage
\* (slackv.go:476-492)
WriteLines_noThread(w, timestamp, threadTs, channel, userType, user, u, annotation) ==
    LET header ==
            IF channel # w.lastChannel
            THEN <<HeaderLine(TRUE, userType \o user, channel, timestamp, threadTs)>>
            ELSE IF user # w.lastUser
            THEN <<HeaderLine(FALSE, userType \o user, channel, timestamp, threadTs)>>
            ELSE <<>>
        shown == IF matchAnyPatterns(u.text, NotificationPatterns)
                 THEN <<"ESC[5;95m">> \o u.text \o <<"ESC[0m">> ELSE u.text
    IN  IF ~u.returns
        THEN [w EXCEPT !.out = @ \o header, !.status = "hang"]
        ELSE [w EXCEPT !.out = @ \o header \o <<BodyLine(shown, annotation)>>,
                       !.lastChannel = channel,
                       !.lastUser = user,
                       !.lastThreadTs = threadTs]

\* the header, if one is due, and the body; u is unescape's outcome
WriteLines(w, timestamp, threadTs, channel, userType, user, u, annotation) ==
    LET header ==
            IF channel # w.lastChannel
            THEN <<HeaderLine(TRUE, userType \o user, channel, timestamp, threadTs)>>
            ELSE IF user # w.lastUser \/ threadTs # w.lastThreadTs
            THEN <<HeaderLine(FALSE, userType \o user, channel, timestamp, threadTs)>>
            ELSE <<>>
        shown == IF matchAnyPatterns(u.text, NotificationPatterns)
                 THEN <<"ESC[5;95m">> \o u.text \o <<"ESC[0m">> ELSE u.text
    IN  IF ~u.returns
        THEN [w EXCEPT !.out = @ \o header, !.status = "hang"]
        ELSE [w EXCEPT !.out = @ \o header \o <<BodyLine(shown, annotation)>>,
                       !.lastChannel = channel,
                       !.lastUser = user,
                       !.lastThreadTs = threadTs]

\* one more call of printMessage has been made
Called(w) == [w EXCEPT !.calls = @ + 1]

printMessage(w, timestamp, threadTs, channel, userType, user, text, annotation) ==
    IF w.status # "ok" THEN w
    ELSE Called(IF equalsAnyKeywords(channel, MuteChannels) THEN w
                ELSE IF equalsAnyKeywords(user, MuteUsers) THEN w
                ELSE IF Len(text) = 0 THEN w
                ELSE WriteLines(w, timestamp, threadTs, channel, userType, user,
                                unescape(text, w.map), annotation))

\* g_LastUser = "", after a handler's printMessage
ClearLastUser(w) == IF w.status = "ok" THEN [w EXCEPT !.lastUser = <<>>] ELSE w

\* if toRemoveLastUser { g_LastUser = "" }
ClearLastUserIf(toRemoveLastUser, w) == IF toRemoveLastUser THEN ClearLastUser(w) ELSE w

NoAnnotation == <<>>
Edited == <<" ", "ESC[93m">> \o <<"(","e","d","i","t","e","d",")">> \o <<"ESC[0m">>

-----------------------------------------------------------------------------
(* The frame handlers *)

\* msg[k].(map[string]interface{})["id"].(string) and ["name"].(string)
EntityPanics(msg, k) ==
    ~(IsA(msg, k, "obj") /\ IsA(msg[k].o, "id", "str") /\ IsA(msg[k].o, "name", "str"))

\* the entity written into a map made anew
SetEntity_fresh(msg, k, w) ==
    IF EntityPanics(msg, k) THEN Panic(w)
    ELSE [w EXCEPT !.map = MapPut(EmptyMap, msg[k].o.id.s, msg[k].o.name.s)]

SetEntity(msg, k, w) ==
    IF EntityPanics(msg, k) THEN Panic(w)
    ELSE [w EXCEPT !.map = MapPut(@, msg[k].o.id.s, msg[k].o.name.s)]

onBotAdded(msg, w) == SetEntity(msg, "bot", w)
onChannelCreated(msg, w) == SetEntity(msg, "channel", w)
onChannelJoined(msg, w) == w
onGroupJoined(msg, w) == w
onTeamJoin(msg, w) == SetEntity(msg, "user", w)
\* user_change left unhandled
onUserChange_ignored(msg, w) == w

onUserChange(msg, w) == SetEntity(msg, "user", w)

\* getTimestamp(msg), getThreadTs(msg), getChannel(msg) panic
HeadPanics(msg) ==
    \/ FieldPanics(msg, "ts", "str")
    \/ FieldPanics(msg, "thread_ts", "str")
    \/ FieldPanics(msg, "channel", "str")

onPureMessage(msg, w) ==
    IF HeadPanics(msg) \/ FieldPanics(msg, "user", "str") \/ ~IsA(msg, "text", "str")
    THEN Panic(w)
    ELSE printMessage(w, getTimestamp(msg), getThreadTs(msg), getChannel(msg, w.map),
                      getUserType(msg), getUser(msg, w.map), msg.text.s, NoAnnotation)

onMessageBot(msg, w) ==
    IF \/ HeadPanics(msg) \/ FieldPanics(msg, "bot_id", "str")
       \/ FieldPanics(msg, "text", "str") \/ AttachmentsPanics(msg)
    THEN Panic(w)
    ELSE LET att == getAttachmentsText(msg)
             text == IF HasAttachment(msg) THEN att.title \o att.text ELSE getText(msg)
         IN  ClearLastUserIf(HasAttachment(msg),
                             printMessage(w, getTimestamp(msg), getThreadTs(msg),
                                          getChannel(msg, w.map), getUserType(msg),
                                          getBot(msg, w.map), text, NoAnnotation))

onMessageFileComment(msg, w) ==
    IF ~IsA(msg, "file", "obj") \/ ~IsA(msg, "comment", "obj") THEN w
    ELSE LET file == msg.file.o
             comment == msg.comment.o
         IN  IF \/ HeadPanics(msg) \/ FieldPanics(comment, "user", "str")
                \/ FieldPanics(file, "title", "str") \/ ~IsA(comment, "comment", "str")
             THEN Panic(w)
             ELSE ClearLastUser(
                    printMessage(w, getTimestamp(msg), getThreadTs(msg),
                                 getChannel(msg, w.map), getUserType(msg),
                                 getUser(comment, w.map),
                                 Boxed(<<"c","o","m","m","e","n","t"," ","t","o",":"," ">> \o getTitle(file))
                                     \o comment.comment.s,
                                 NoAnnotation))

onMessageFileShare(msg, w) ==
    IF ~IsA(msg, "file", "obj") THEN w
    ELSE LET file == msg.file.o
             preview == IF isPreviewTruncated(file)
                        THEN file.preview.s \o Ellipsis ELSE file.preview.s
         IN  IF \/ HeadPanics(msg) \/ FieldPanics(msg, "user", "str")
                \/ FieldPanics(file, "title", "str")
                \/ (IsA(file, "preview", "str")
                       /\ FieldPanics(file, "preview_is_truncated", "bool"))
                \/ (~IsA(file, "preview", "str") /\ ~IsA(msg, "text", "str"))
             THEN Panic(w)
             ELSE ClearLastUser(
                    printMessage(w, getTimestamp(msg), getThreadTs(msg),
                                 getChannel(msg, w.map), getUserType(msg),
                                 getUser(msg, w.map),
                                 IF IsA(file, "preview", "str")
                                 THEN Boxed(<<"f","i","l","e",":"," ">> \o getTitle(file)) \o preview
                                 ELSE msg.text.s,
                                 NoAnnotation))

onMessageMe(msg, w) ==
    IF HeadPanics(msg) \/ FieldPanics(msg, "user", "str") \/ ~IsA(msg, "text", "str")
    THEN Panic(w)
    ELSE printMessage(w, getTimestamp(msg), getThreadTs(msg), getChannel(msg, w.map),
                      getUserType(msg), getUser(msg, w.map),
                      <<"ESC[3m", "ESC[90m">> \o msg.text.s \o <<"ESC[0m">>,
                      NoAnnotation)

\* the second half of onMessageChanged, slackv.go:1072-1081; w1 is the
\* world after the first half
AttachmentChanged(w1, message, prevMessage, timestamp, threadTs, channel, userType, user) ==
    LET att == getAttachmentsText(message)
        prevAtt == getAttachmentsText(prevMessage)
    IN  IF w1.status # "ok" THEN w1
        ELSE IF AttachmentsPanics(message) \/ AttachmentsPanics(prevMessage)
        THEN Panic(w1)
        ELSE IF att.title \o att.text # prevAtt.title \o prevAtt.text
        THEN ClearLastUser(
               printMessage(w1, timestamp, threadTs, channel, userType, user,
                            att.title \o att.text, NoAnnotation))
        ELSE w1

onMessageChanged(msg, w) ==
    IF ~IsA(msg, "message", "obj") \/ ~IsA(msg, "previous_message", "obj") THEN w
    ELSE LET message == msg.message.o
             prevMessage == msg.previous_message.o
             timestamp == getTimestamp(message)
             threadTs == getThreadTs(msg)
             channel == getChannel(msg, w.map)
             userType == getUserType(msg)
             user == getUser(message, w.map)
             text == getText(message)
             prevText == getText(prevMessage)
         IN  IF \/ FieldPanics(message, "ts", "str") \/ FieldPanics(msg, "thread_ts", "str")
                \/ FieldPanics(msg, "channel", "str") \/ FieldPanics(message, "user", "str")
                \/ FieldPanics(message, "text", "str")
                \/ FieldPanics(prevMessage, "text", "str")
             THEN Panic(w)
             ELSE AttachmentChanged(
                    IF text # prevText
                    THEN printMessage(w, timestamp, threadTs, channel, userType, user,
                                      text, Edited)
                    ELSE w,
                    message, prevMessage, timestamp, threadTs, channel, userType, user)

onMessageReplied(msg, w) ==
    IF ~IsA(msg, "message", "obj") THEN w
    ELSE LET message == msg.message.o IN
         IF \/ FieldPanics(message, "ts", "str") \/ FieldPanics(message, "thread_ts", "str")
            \/ FieldPanics(msg, "channel", "str") \/ FieldPanics(message, "user", "str")
            \/ FieldPanics(message, "text", "str")
         THEN Panic(w)
         ELSE printMessage(w, getTimestamp(message), getThreadTs(message),
                           getChannel(msg, w.map), getUserType(message),
                           getUser(message, w.map), getText(message), NoAnnotation)

\* switch msg["subtype"]
onMessage(msg, w) ==
    IF ~Has(msg, "subtype") \/ msg.subtype.t = "null" THEN onPureMessage(msg, w)
    ELSE IF msg.subtype.t # "str" THEN w
    ELSE CASE msg.subtype.s = <<"b","o","t","_","m","e","s","s","a","g","e">> -> onMessageBot(msg, w)
           [] msg.subtype.s = <<"f","i","l","e","_","c","o","m","m","e","n","t">> -> onMessageFileComment(msg, w)
           [] msg.subtype.s = <<"f","i","l","e","_","m","e","n","t","i","o","n">> -> w
           [] msg.subtype.s = <<"f","i","l","e","_","s","h","a","r","e">> -> onMessageFileShare(msg, w)
           [] msg.subtype.s = <<"m","e","_","m","e","s","s","a","g","e">> -> onMessageMe(msg, w)
           [] msg.subtype.s = <<"m","e","s","s","a","g","e","_","c","h","a","n","g","e","d">> -> onMessageChanged(msg, w)
           [] msg.subtype.s = <<"m","e","s","s","a","g","e","_","r","e","p","l","i","e","d">> -> onMessageReplied(msg, w)
           [] OTHER -> w

\* one turn of receiveRoutine's loop on a frame that was received
handleFrame(frame, w) ==
    IF frame.t # "obj" THEN Panic(w)
    ELSE LET msg == frame.o IN
         IF ~IsA(msg, "type", "str") THEN Panic(w)
         ELSE CASE msg.type.s = <<"h","e","l","l","o">> ->
                    [w EXCEPT !.out = @ \o <<[kind |-> "note", text |-> "Connected!"]>>]
                [] msg.type.s = <<"b","o","t","_","a","d","d","e","d">> -> onBotAdded(msg, w)
                [] msg.type.s = <<"c","h","a","n","n","e","l","_","c","r","e","a","t","e","d">> -> onChannelCreated(msg, w)
                [] msg.type.s = <<"c","h","a","n","n","e","l","_","j","o","i","n","e","d">> -> onChannelJoined(msg, w)
                [] msg.type.s = <<"g","r","o","u","p","_","j","o","i","n","e","d">> -> onGroupJoined(msg, w)
                [] msg.type.s = <<"m","e","s","s","a","g","e">> -> onMessage(msg, w)
                [] msg.type.s = <<"t","e","a","m","_","j","o","i","n">> -> onTeamJoin(msg, w)
                [] msg.type.s = <<"u","s","e","r","_","c","h","a","n","g","e">> -> onUserChange(msg, w)
                [] OTHER -> w

-----------------------------------------------------------------------------
(* login, connect and the reconnect loop of main *)

Entity(id, name) == [Id |-> id, Name |-> name]
Im(id, userId) == [Id |-> id, UserId |-> userId]

\* SlackSession{}
EmptySession ==
    [Ok |-> FALSE, Url |-> "", Users |-> <<>>, Bots |-> <<>>, Channels |-> <<>>,
     Groups |-> <<>>, Mpims |-> <<>>, Ims |-> <<>>]

RECURSIVE PutAll(_, _)
PutAll(map, entities) ==
    IF entities = <<>> THEN map
    ELSE PutAll(MapPut(map, Head(entities).Id, Head(entities).Name), Tail(entities))

\* result[im.Id] = result[im.UserId]
RECURSIVE PutIms(_, _)
PutIms(map, ims) ==
    IF ims = <<>> THEN map
    ELSE PutIms(MapPut(map, Head(ims).Id, MapGet(map, Head(ims).UserId)), Tail(ims))

generateIdNameMap(session) ==
    PutIms(PutAll(PutAll(PutAll(PutAll(PutAll(EmptyMap, session.Users), session.Bots),
                                session.Channels), session.Groups), session.Mpims),
           session.Ims)

\* What rtm.start answers: no answer (the request, the read or the JSON
\* decoding fails with msg) or a body decoded into a SlackSession.
HttpError(msg) == [kind |-> "error", msg |-> msg]
HttpBody(session) == [kind |-> "body", session |-> session]

\* [session, err]; err = NilError is Go's nil
login(response, id) ==
    IF response.kind = "error"
    THEN [session |-> EmptySession, err |-> [id |-> id, msg |-> response.msg]]
    ELSE [session |-> response.session, err |-> NilError]

BadUrlMsg == "websocket.Dial: malformed ws or wss URL"
BadStatusMsg == "websocket.Dial: bad status"

\* websocket.Dial(url, "", "http://localhost/"): NilError when the
\* connection opens; reachable says whether the server at url answers
Dial(url, reachable, id) ==
    IF url = "" THEN [id |-> id, msg |-> BadUrlMsg]
    ELSE IF ~reachable THEN [id |-> id, msg |-> BadStatusMsg]
    ELSE NilError

MinWait == 1
MaxWait == 15

\* waitNS = waitNS * 2, capped at 15 s
NextWait_cap10(w) == IF w * 2 > 10 THEN 10 ELSE w * 2

NextWait(w) == IF w * 2 > MaxWait THEN MaxWait ELSE w * 2

\* at which count of consecutive failures `fails` stops counting
MaxFails == 6

\* connect succeeds and lastError is left as it was
Connect_keepsError(response, reachable, id) ==
    /\ pc = "connect"
    /\ lastIn' = response
    /\ LET l == login(response, id)
           d == Dial(l.session.Url, reachable, id)
       IN  IF l.err # NilError
           THEN /\ err' = l.err
                /\ prevFail' = err
                /\ pc' = "L_Error"
                /\ UNCHANGED <<g_IdNameMap, waitNS, lastError, conns, fails, cleared>>
           ELSE /\ g_IdNameMap' = generateIdNameMap(l.session)
                /\ IF d # NilError
                   THEN /\ err' = d
                        /\ prevFail' = err
                        /\ pc' = "L_Error"
                        /\ UNCHANGED <<waitNS, lastError, conns, fails, cleared>>
                   ELSE /\ err' = NilError
                        /\ prevFail' = NilError
                        /\ conns' = conns + 1
                        /\ waitNS' = MinWait
                        /\ lastError' = lastError
                        /\ cleared' = lastError
                        /\ fails' = 0
                        /\ pc' = "receive"
    /\ UNCHANGED <<renderVars, logs, slept, unVars, eqVars>>

\* ws, err := connect(token), and main up to receiveRoutine or L_Error
Connect(response, reachable, id) ==
    /\ pc = "connect"
    /\ lastIn' = response
    /\ LET l == login(response, id)
           d == Dial(l.session.Url, reachable, id)
       IN  IF l.err # NilError
           THEN /\ err' = l.err
                /\ prevFail' = err
                /\ pc' = "L_Error"
                /\ UNCHANGED <<g_IdNameMap, waitNS, lastError, conns, fails, cleared>>
           ELSE /\ g_IdNameMap' = generateIdNameMap(l.session)
                /\ IF d # NilError
                   THEN /\ err' = d
                        /\ prevFail' = err
                        /\ pc' = "L_Error"
                        /\ UNCHANGED <<waitNS, lastError, conns, fails, cleared>>
                   ELSE /\ err' = NilError
                        /\ prevFail' = NilError
                        /\ conns' = conns + 1
                        /\ waitNS' = MinWait
                        /\ lastError' = NilError
                        /\ cleared' = lastError
                        /\ fails' = 0
                        /\ pc' = "receive"
    /\ UNCHANGED <<renderVars, logs, slept, unVars, eqVars>>

\* the globals and the process after a handler has left the world as w
Deliver(w) ==
    /\ g_IdNameMap' = w.map
    /\ g_LastUser' = w.lastUser
    /\ g_LastChannel' = w.lastChannel
    /\ g_LastThreadTs' = w.lastThreadTs
    /\ out' = w.out
    /\ calls' = w.calls
    /\ pc' = CASE w.status = "ok" -> "receive"
               [] w.status = "panic" -> "crashed"
               [] OTHER -> "hung"
    /\ conns' = IF w.status = "panic" THEN 0 ELSE conns

\* websocket.JSON.Receive returns a frame; receiveRoutine dispatches it. A
\* panic ends the process (its deferred ws.Close() calls run first).
Receive(frame) ==
    /\ pc = "receive"
    /\ lastIn' = [kind |-> "frame", frame |-> frame]
    /\ Deliver(handleFrame(frame, World(g_IdNameMap, g_LastUser, g_LastChannel,
                                        g_LastThreadTs)))
    /\ UNCHANGED <<waitNS, lastError, err, logs, slept, fails, prevFail, cleared,
                   unVars, eqVars>>

\* receiveRoutine returns an error and ws is left open
ReceiveError_open(msg, id) ==
    /\ pc = "receive"
    /\ err' = [id |-> id, msg |-> msg]
    /\ prevFail' = err
    /\ conns' = conns
    /\ pc' = "L_Error"
    /\ UNCHANGED <<waitNS, lastError, g_IdNameMap, renderVars, logs, slept, fails,
                   cleared, lastIn, unVars, eqVars>>

\* websocket.JSON.Receive returns an error (the stream closed, a frame that
\* is no JSON): receiveRoutine returns it and main closes ws
ReceiveError(msg, id) ==
    /\ pc = "receive"
    /\ err' = [id |-> id, msg |-> msg]
    /\ prevFail' = err
    /\ conns' = conns - 1
    /\ pc' = "L_Error"
    /\ UNCHANGED <<waitNS, lastError, g_IdNameMap, renderVars, logs, slept, fails,
                   cleared, lastIn, unVars, eqVars>>

\* L_Error: log on a new message, sleep, double the wait
Backoff ==
    /\ pc = "L_Error"
    /\ logs' = ~errorEquals(err, lastError)
    /\ lastError' = IF ~errorEquals(err, lastError) THEN err ELSE lastError
    /\ slept' = waitNS
    /\ waitNS' = NextWait(waitNS)
    /\ fails' = IF fails < MaxFails THEN fails + 1 ELSE fails
    /\ pc' = "connect"
    /\ UNCHANGED <<err, prevFail, cleared, conns, g_IdNameMap, renderVars, lastIn,
                   unVars, eqVars>>

-----------------------------------------------------------------------------
(* The inputs: what rtm.start answers and the frames the stream delivers *)

sU1 == <<"U","1">>
sU2 == <<"U","2">>
sU3 == <<"U","3">>
sU9 == <<"U","9">>
sB1 == <<"B","1">>
sB2 == <<"B","2">>
sC1 == <<"C","1">>
sC2 == <<"C","2">>
sC9 == <<"C","9">>
sD1 == <<"D","1">>

SessionA ==
    [Ok |-> TRUE, Url |-> "wss://a",
     Users |-> <<Entity(sU1, <<"a","n","n">>), Entity(sU2, <<"b","o","b">>), Entity(sU3, <<"t","r","o","l","l">>)>>,
     Bots |-> <<Entity(sB1, <<"b","o","t">>)>>,
     Channels |-> <<Entity(sC1, <<"g","e","n">>), Entity(sC2, <<"s","p","a","m">>)>>,
     Groups |-> <<>>, Mpims |-> <<>>,
     Ims |-> <<Im(sD1, sU1)>>]

\* a later answer: U1 renamed, fewer entities listed
SessionB ==
    [Ok |-> TRUE, Url |-> "wss://b",
     Users |-> <<Entity(sU1, <<"a","m","y">>)>>,
     Bots |-> <<>>,
     Channels |-> <<Entity(sC1, <<"g","e","n">>)>>,
     Groups |-> <<>>, Mpims |-> <<>>, Ims |-> <<>>]

\* {"ok": false, "error": "invalid_auth"} decoded into a SlackSession
SessionNotOk == EmptySession

Without(m, k) == [x \in DOMAIN m \ {k} |-> m[x]]

PureMessage(channel, user, text, ts) ==
    [type |-> JStr(<<"m","e","s","s","a","g","e">>), channel |-> JStr(channel), user |-> JStr(user),
     text |-> JStr(text), ts |-> JStr(ts)]

EntityFrame(type, key, id, name) ==
    (key :> JObj([id |-> JStr(id), name |-> JStr(name)])) @@ [type |-> JStr(type)]

mHi == PureMessage(sC1, sU1, <<"h","i">>, <<"1">>)

Attachment == [service_name |-> JStr(<<"c","i">>), text |-> JStr(<<"b","u","i","l","t">>)]

BotMessage(attachments) ==
    [type |-> JStr(<<"m","e","s","s","a","g","e">>), subtype |-> JStr(<<"b","o","t","_","m","e","s","s","a","g","e">>),
     channel |-> JStr(sC1), bot_id |-> JStr(sB1), text |-> JStr(<<"b","e","e","p">>),
     ts |-> JStr(<<"2">>), attachments |-> JArr(attachments)]

\* frames that hold every field their handler reads
WholeFrames ==
    {JObj([type |-> JStr(<<"h","e","l","l","o">>)]),
     JObj([type |-> JStr(<<"p","o","n","g">>)]),
     JObj([type |-> JStr(<<"c","h","a","n","n","e","l","_","j","o","i","n","e","d">>)]),
     JObj([type |-> JStr(<<"g","r","o","u","p","_","j","o","i","n","e","d">>)]),
     JObj(mHi),
     JObj(PureMessage(sC1, sU2, <<"<","@","U","1",">"," ","f","o","o">>, <<"2">>)),
     JObj(PureMessage(sC9, sU1, <<"h","i">>, <<"2">>)),
     JObj(PureMessage(sC1, sU9, <<"y","o">>, <<"3">>)),
     JObj(mHi @@ [thread_ts |-> JStr(<<"1">>)]),
     JObj(BotMessage(<<JObj(Attachment)>>)),
     JObj(EntityFrame(<<"b","o","t","_","a","d","d","e","d">>, "bot", sB2, <<"c","r","o","n">>)),
     JObj(EntityFrame(<<"c","h","a","n","n","e","l","_","c","r","e","a","t","e","d">>, "channel", sC9, <<"o","p","s">>)),
     JObj(EntityFrame(<<"t","e","a","m","_","j","o","i","n">>, "user", sU9, <<"z","e","d">>)),
     JObj(EntityFrame(<<"u","s","e","r","_","c","h","a","n","g","e">>, "user", sU1, <<"a","n","n","a">>))}

\* frames that lack a field their type or subtype declares, or whose
\* attachments array holds nothing
LackingFrames ==
    {JObj(Without(mHi, "type")),
     JObj(Without(mHi, "text")),
     JObj(Without(mHi, "ts")),
     JObj(Without(mHi, "channel")),
     JObj(Without(mHi, "user")),
     JObj(BotMessage(<<>>)),
     JObj([type |-> JStr(<<"b","o","t","_","a","d","d","e","d">>)]),
     JObj([type |-> JStr(<<"u","s","e","r","_","c","h","a","n","g","e">>), user |-> JObj([id |-> JStr(sU1)])])}

Frames == WholeFrames \cup LackingFrames

\* the frames and answers of the specification of the reconnect loop
LoopFrames == {JObj(mHi), JObj(Without(mHi, "text"))}

LoopResponses ==
    {HttpError(m) : m \in LoginErrMsgs} \cup {HttpBody(SessionA), HttpBody(SessionNotOk)}

\* the answers of the specification of the receive loop
Responses ==
    {HttpError("Post rtm.start: no such host"),
     HttpBody(SessionA), HttpBody(SessionB), HttpBody(SessionNotOk)}

InitMain ==
    /\ pc = "connect"
    /\ g_IdNameMap = EmptyMap
    /\ Parked
    /\ uParts = <<>> /\ uText = <<>> /\ uOut = <<>> /\ uAgain = <<>>
    /\ eA = NilError /\ eB = NilError /\ eOut = FALSE

\* main's loop, every error message and error value, few frames
Next ==
    \/ \E response \in LoopResponses, reachable \in BOOLEAN, id \in 1..MaxErrIds :
          Connect(response, reachable, id)
    \/ \E frame \in LoopFrames : Receive(frame)
    \/ \E msg \in ReceiveErrMsgs, id \in 1..MaxErrIds : ReceiveError(msg, id)
    \/ Backoff

Spec == InitMain /\ [][Next]_vars

\* the receive loop on every frame, one error value per failure
NextRecv ==
    \/ \E response \in Responses, reachable \in BOOLEAN : Connect(response, reachable, 1)
    \/ \E frame \in Frames : Receive(frame)
    \/ ReceiveError("EOF", 1)
    \/ Backoff

SpecRecv == InitMain /\ [][NextRecv]_vars

-----------------------------------------------------------------------------
(* Claims about the reconnect loop, under Spec *)

\* the wait before the retry that follows the n-th consecutive failure
WaitSeq(n) ==
    CASE n = 1 -> 1 [] n = 2 -> 2 [] n = 3 -> 4 [] n = 4 -> 8 [] OTHER -> 15

C1_Waits ==
    /\ waitNS = WaitSeq(fails + 1)
    /\ (pc = "connect" /\ fails > 0) => slept = WaitSeq(fails)

C1_Resets ==
    /\ (pc = "connect" /\ pc' = "receive") => waitNS' = 1
    /\ waitNS' < waitNS => (pc = "connect" /\ pc' = "receive")

\* C1: the wait before a retry is 1, 2, 4, 8, 15, 15, ... seconds over
\* consecutive failures (failed connects, or a receive loop ended by an
\* error); every successful connect resets it to 1 second and no other
\* step lowers it.
C1_Backoff == [](C1_Waits) /\ [][C1_Resets]_vars

\* six failures in a row: the waits were 1, 2, 4, 8, 15 and 15 seconds
C1_Witness == pc = "connect" /\ fails = 6 /\ slept = 15 /\ waitNS = 15

\* C2 (as claimed): main never stops retrying: it is always connecting,
\* receiving, or at L_Error on its way to sleep and retry.
C2_NeverStopsRetrying == pc \in {"connect", "receive", "L_Error"}

\* the part of C2 that the code keeps: a failed connect goes to L_Error,
\* L_Error sleeps for the current wait and goes back to connect
ConnectFailuresRetried ==
    [][/\ (pc = "connect" /\ pc' # "receive") => pc' = "L_Error"
       /\ pc = "L_Error" => (pc' = "connect" /\ slept' = waitNS)]_vars

\* C7: between two failures with no successful connect between them, the
\* later one is logged exactly when its message differs from the earlier
\* one's.
C7_LogOnChange ==
    (pc = "connect" /\ fails > 0 /\ prevFail # NilError)
        => (logs <=> prevFail.msg # err.msg)

\* the same message from another error value: not logged again
C7_Witness ==
    /\ pc = "connect" /\ fails > 0 /\ prevFail # NilError
    /\ prevFail.msg = err.msg /\ prevFail.id # err.id
    /\ ~logs

\* C8 (as claimed): an answer with ok = false makes login return an error,
\* so connect fails on login's error and the answer is never used as a
\* session: the Identity Cache is not rebuilt from it and nothing is dialled.
C8_NotOkIsLoginError ==
    [][(pc = "connect" /\ lastIn'.kind = "body" /\ ~lastIn'.session.Ok)
          => /\ pc' = "L_Error"
             /\ err'.msg \notin DialErrMsgs
             /\ g_IdNameMap' = g_IdNameMap]_vars

-----------------------------------------------------------------------------
(* Claims about the receive loop and the Identity Cache, under SpecRecv *)

\* C3 (as claimed): whatever a frame lacks, receiveRoutine handles it and
\* goes on to receive the next frame.
C3_FrameNeverCrashes ==
    [][(pc = "receive" /\ pc' # "L_Error") => pc' = "receive"]_vars

UpdateTypes ==
    {<<"b","o","t","_","a","d","d","e","d">>, <<"c","h","a","n","n","e","l","_","c","r","e","a","t","e","d">>, <<"t","e","a","m","_","j","o","i","n">>, <<"u","s","e","r","_","c","h","a","n","g","e">>}

EntityKey(type) ==
    CASE type = <<"b","o","t","_","a","d","d","e","d">> -> "bot" [] type = <<"c","h","a","n","n","e","l","_","c","r","e","a","t","e","d">> -> "channel"
      [] OTHER -> "user"

\* frame is an update event for id
IsUpdateFor(frame, id) ==
    /\ frame.t = "obj"
    /\ IsA(frame.o, "type", "str")
    /\ frame.o.type.s \in UpdateTypes
    /\ IsA(frame.o, EntityKey(frame.o.type.s), "obj")
    /\ IsA(frame.o[EntityKey(frame.o.type.s)].o, "id", "str")
    /\ frame.o[EntityKey(frame.o.type.s)].o.id.s = id

Kept(id) == id \in DOMAIN g_IdNameMap' /\ g_IdNameMap'[id] = g_IdNameMap[id]

UpdateStep(id) ==
    pc = "receive" /\ lastIn'.kind = "frame" /\ IsUpdateFor(lastIn'.frame, id)

RebuildStep == pc = "connect" /\ lastIn'.kind = "body"

RECURSIVE IdsOf(_)
IdsOf(entities) ==
    IF entities = <<>> THEN {} ELSE {Head(entities).Id} \cup IdsOf(Tail(entities))

SessionIds(session) ==
    IdsOf(session.Users) \cup IdsOf(session.Bots) \cup IdsOf(session.Channels)
    \cup IdsOf(session.Groups) \cup IdsOf(session.Mpims) \cup IdsOf(session.Ims)

Directory(id) ==
    CASE id = sC9 -> <<"o","p","s">> [] id = sU9 -> <<"z","e","d">> [] OTHER -> <<"o","t","h","e","r">>

IsPlainMessage(frame) ==
    /\ frame \in WholeFrames
    /\ frame.o.type.s = <<"m","e","s","s","a","g","e">>
    /\ ~Has(frame.o, "subtype")

\* C5 (as claimed): a message whose channel id is not in the Identity Cache
\* is rendered with the looked-up name, and the name is stored in the cache.
C5_MissIsLookedUp ==
    [][(/\ pc = "receive" /\ pc' = "receive"
        /\ lastIn'.kind = "frame"
        /\ IsPlainMessage(lastIn'.frame)
        /\ lastIn'.frame.o.channel.s \notin DOMAIN g_IdNameMap)
          => /\ lastIn'.frame.o.channel.s \in DOMAIN g_IdNameMap'
             /\ g_IdNameMap'[lastIn'.frame.o.channel.s]
                   = Directory(lastIn'.frame.o.channel.s)
             /\ g_LastChannel' = Directory(lastIn'.frame.o.channel.s)]_vars


-----------------------------------------------------------------------------
(* unescape: keywords and user-group mentions *)

\* C11 (as claimed): every bare keyword token <!KW> or <!KW|label> comes
\* out as '@' followed by the keyword KW itself, the label if any ignored
\* and the Identity Cache not consulted.
KeywordText(part) ==
    IF part.k = "keyword" THEN <<"@">> \o part.id ELSE part.s

RECURSIVE KeywordsResolved(_)
KeywordsResolved(parts) ==
    IF parts = <<>> THEN <<>>
    ELSE KeywordText(Head(parts)) \o KeywordsResolved(Tail(parts))

C11_KeywordLiteral ==
    (/\ pc = "unescape_done"
     /\ \A i \in 1..Len(uParts) : IsPlain(uParts[i]) \/ uParts[i].k = "keyword")
    => uOut = KeywordsResolved(uParts)

\* C12 (as claimed): a user-group mention <!subteam^ID|label> whose ID the
\* Identity Cache holds comes out as '@' followed by the cached group name,
\* once.
SubteamText(part, map) ==
    IF part.k = "subteam" THEN <<"@">> \o MapGet(map, part.id) ELSE part.s

RECURSIVE SubteamsResolved(_, _)
SubteamsResolved(parts, map) ==
    IF parts = <<>> THEN <<>>
    ELSE SubteamText(Head(parts), map) \o SubteamsResolved(Tail(parts), map)

C12_SubteamNameFromCache ==
    (/\ pc = "unescape_done"
     /\ \A i \in 1..Len(uParts) :
           \/ IsPlain(uParts[i])
           \/ uParts[i].k = "subteam" /\ uParts[i].id \in DOMAIN g_IdNameMap)
    => uOut = SubteamsResolved(uParts, g_IdNameMap)

\* C13 (as claimed): a user-group mention whose ID the Identity Cache does
\* not hold stays in the result as the markup it was.
C13_UnknownSubteamVerbatim ==
    (/\ pc = "unescape_done"
     /\ \A i \in 1..Len(uParts) :
           \/ IsPlain(uParts[i])
           \/ uParts[i].k = "subteam" /\ uParts[i].id \notin DOMAIN g_IdNameMap)
    => uOut = uText

-----------------------------------------------------------------------------
(* unescape: the mention loop, for names and texts of any content *)

sV == <<"V">>

\* caches whose names are plain, and caches whose names hold mention markup
\* (generateIdNameMap stores whatever names rtm.start's answer carries)
TermCaches ==
    {EmptyMap,
     [k \in {sU} |-> <<"u","s","r">>],
     [k \in {sU, sV} |-> IF k = sU THEN <<"<","@","V",">">> ELSE <<"v">>],
     [k \in {sU} |-> <<"<","@","U",">">>]}

\* mentions, plain text, openings that are never closed, a stray closing
TermParts ==
    {Mention(sU, NoLabel), Mention(sU, <<"t">>), Raw(sFoo),
     Raw(<<"<","@">>), Raw(<<"<","#">>), Raw(<<"<","!">>), Raw(<<">">>)}

TermCases ==
    {[map |-> m, parts |-> p] :
        m \in TermCaches, p \in UNION {[1..n -> TermParts] : n \in 0..MaxParts}}

InitTerm ==
    /\ pc = "unescape"
    /\ \E c \in TermCases :
          /\ g_IdNameMap = c.map
          /\ uParts = c.parts
          /\ uText = TextOf(c.parts)
    /\ uOut = <<>> /\ uAgain = <<>>
    /\ eA = NilError /\ eB = NilError /\ eOut = FALSE
    /\ Parked

SpecTerm == InitTerm /\ [][NextUn]_vars

HasClosing(s) == \E i \in 1..Len(s) : s[i] = ">"

\* C14 (as claimed): unescape returns for every text and every cache; a
\* mention's replacement is not expanded again; a text whose openings are
\* never closed comes out as it went in.
C14_TerminatesWithoutRescan ==
    /\ pc # "unescape_loop"
    /\ (/\ pc = "unescape_done"
        /\ \A i \in 1..Len(uParts) : IsPlain(uParts[i]) \/ uParts[i].k = "mention")
       => uOut = MentionsResolved(uParts, g_IdNameMap)
    /\ (pc = "unescape_done" /\ ~HasClosing(uText)) => uOut = uText

\* what does hold: with cached names free of markup unescape returns, and
\* openings that are never closed stay as they are
NamesArePlain == \A id \in DOMAIN g_IdNameMap : ~HasClosing(g_IdNameMap[id])

TerminatesOnPlainNames ==
    /\ (pc = "unescape_loop") => ~NamesArePlain
    /\ (pc = "unescape_done" /\ ~HasClosing(uText)) => uOut = uText

-----------------------------------------------------------------------------
(* unescape applied twice; texts without markup *)

\* s holds a match of g_MentionPattern, g_ChannelPattern or g_KeywordPattern
HasMarkup(s) ==
    \/ FindFrom("@", s, 1).found
    \/ FindFrom("#", s, 1).found
    \/ FindFrom("!", s, 1).found

HasAmpersand(s) == \E i \in 1..Len(s) : s[i] = "&"

\* C15 (as claimed): when unescape(text) holds no markup,
\* unescape(unescape(text)) = unescape(text), entity escapes in text or not.
C15_Idempotent ==
    (pc = "unescape_twice" /\ ~HasMarkup(uOut)) => uAgain = uOut

\* C15 (amended): when unescape(text) holds no markup, a second unescape
\* does nothing but decode the HTML entities of the result once more; it
\* returns the result unchanged when the result holds no '&'.
C15_IdempotentUpToEntities ==
    (pc = "unescape_twice" /\ ~HasMarkup(uOut)) =>
        /\ uAgain = HtmlUnescapeString(uOut)
        /\ ~HasAmpersand(uOut) => uAgain = uOut

\* "&amp;lt;" gives "&lt;", and that gives "<"
C15_Witness ==
    /\ pc = "unescape_twice"
    /\ uText = <<"&","a","m","p",";","l","t",";">>
    /\ uOut = <<"&","l","t",";">>
    /\ uAgain = <<"<">>

\* an opening '<@', '<#' or '<!' at position i of s that is closed by a
\* '>' with at least one character in between
ClosedOpening(s, i) ==
    /\ i + 3 <= Len(s)
    /\ s[i] = "<" /\ s[i + 1] \in {"@", "#", "!"}
    /\ \E j \in (i + 3)..Len(s) : s[j] = ">"

\* C16: a text that holds no markup and no HTML entity (no '&') is returned
\* as it is, whatever the Identity Cache holds.
C16_PlainTextUnchanged ==
    (/\ pc = "unescape_done"
     /\ \A i \in 1..Len(uParts) : uParts[i].k = "raw"
     /\ \A i \in 1..Len(uText) : ~ClosedOpening(uText, i)
     /\ ~HasAmpersand(uText))
    => uOut = uText

\* an opening closed at once, "<@>", is no markup: the id must not be empty
C16_Witness ==
    /\ pc = "unescape_done"
    /\ uParts = <<Raw(<<"<","@">>), Raw(<<">">>), Raw(sFoo)>>
    /\ g_IdNameMap # EmptyMap
    /\ uOut = <<"<","@",">"," ","f","o","o">>

\* TestUnescape4's second text
C16_WitnessLiteral ==
    /\ pc = "unescape_done"
    /\ uText = <<"@">> \o sHogePiyo \o sFoo
    /\ uOut = uText

-----------------------------------------------------------------------------
(* The renderer at work: frames delivered on an open connection *)

LongText(n) == [i \in 1..n |-> "x"]

\* lengths at and just over the limit of getAttachmentText
LongLens == {TruncateLen, TruncateLen + 1}

ThreadedMessage(channel, user, text, ts, threadTs) ==
    PureMessage(channel, user, text, ts) @@ [thread_ts |-> JStr(threadTs)]

\* plain messages: a known, a muted and an unknown channel; a known, a
\* muted and an unknown user; threaded or not; an empty text
PlainFrames ==
    {JObj(PureMessage(c, u, t, <<"7">>)) :
        c \in {sC1, sC2, sC9}, u \in {sU1, sU3, sU9}, t \in {<<"h","i">>, <<"y","o">>, <<>>}}
    \cup {JObj(ThreadedMessage(c, u, t, <<"7">>, <<"5">>)) :
        c \in {sC1, sC2, sC9}, u \in {sU1, sU3, sU9}, t \in {<<"h","i">>, <<"y","o">>, <<>>}}

LongFrames ==
    {JObj(PureMessage(sC1, sU1, LongText(n), <<"8">>)) : n \in LongLens}
    \cup {JObj(BotMessage(<<JObj([service_name |-> JStr(<<"c","i">>), text |-> JStr(LongText(n))])>>)) :
             n \in LongLens}
    \cup {JObj(BotMessage(<<JObj([fallback |-> JStr(LongText(n))])>>)) : n \in LongLens}

Att0 ==
    [service_name |-> JStr(<<"c","i">>), author_name |-> JStr(<<"a","l">>),
     title |-> JStr(<<"t","1">>), footer |-> JStr(<<"f","1">>), text |-> JStr(<<"b","u","i","l","t">>)]

\* no attachment, Att0, and Att0 with one of its five parts changed
EditAttachments ==
    {<<>>, <<JObj(Att0)>>,
     <<JObj([Att0 EXCEPT !.service_name = JStr(<<"c","d">>)])>>,
     <<JObj([Att0 EXCEPT !.author_name = JStr(<<"e","d">>)])>>,
     <<JObj([Att0 EXCEPT !.title = JStr(<<"t","2">>)])>>,
     <<JObj([Att0 EXCEPT !.footer = JStr(<<"f","2">>)])>>,
     <<JObj([Att0 EXCEPT !.text = JStr(<<"f","a","i","l","e","d">>)])>>}

\* the "message" / "previous_message" object of a message_changed frame
EditedMessage(text, attachments) ==
    IF attachments = <<>>
    THEN [user |-> JStr(sU1), text |-> JStr(text), ts |-> JStr(<<"3">>)]
    ELSE [user |-> JStr(sU1), text |-> JStr(text), ts |-> JStr(<<"3">>),
          attachments |-> JArr(attachments)]

EditFrame(text, attachments, prevText, prevAttachments) ==
    [type |-> JStr(<<"m","e","s","s","a","g","e">>),
     subtype |-> JStr(<<"m","e","s","s","a","g","e","_","c","h","a","n","g","e","d">>),
     channel |-> JStr(sC1), ts |-> JStr(<<"4">>),
     message |-> JObj(EditedMessage(text, attachments)),
     previous_message |-> JObj(EditedMessage(prevText, prevAttachments))]

EditFrames ==
    {JObj(EditFrame(t, a, <<"a">>, p)) :
        t \in {<<"a">>, <<"b">>}, a \in EditAttachments, p \in {<<>>, <<JObj(Att0)>>}}

RenderFrames == PlainFrames \cup LongFrames \cup EditFrames

\* main has connected (rtm.start answered SessionA) and receiveRoutine runs
InitRender ==
    /\ pc = "receive"
    /\ g_IdNameMap = generateIdNameMap(SessionA)
    /\ lastIn = HttpBody(SessionA)
    /\ conns = 1
    /\ waitNS = MinWait /\ lastError = NilError /\ err = NilError
    /\ logs = FALSE /\ slept = 0 /\ fails = 0 /\ prevFail = NilError
    /\ cleared = NilError
    /\ g_LastUser = <<>> /\ g_LastChannel = <<>> /\ g_LastThreadTs = 0
    /\ out = <<>> /\ calls = 0
    /\ uParts = <<>> /\ uText = <<>> /\ uOut = <<>> /\ uAgain = <<>>
    /\ eA = NilError /\ eB = NilError /\ eOut = FALSE

NextRender == \E frame \in RenderFrames : Receive(frame)

SpecRender == InitRender /\ [][NextRender]_vars

-----------------------------------------------------------------------------
(* Properties of the renderer *)

Headers(lines) == Cardinality({i \in 1..Len(lines) : lines[i].kind = "header"})
Bodies(lines) == Cardinality({i \in 1..Len(lines) : lines[i].kind = "body"})

\* the body text a frame carries: its attachment's text or fallback, else
\* its own text
RawBody(msg) ==
    IF HasAttachment(msg)
    THEN (IF IsA(msg.attachments.a[1].o, "text", "str")
          THEN msg.attachments.a[1].o.text.s ELSE msg.attachments.a[1].o.fallback.s)
    ELSE msg.text.s

Cut(text) ==
    IF Len(text) > TruncateLen THEN SubSeq(text, 1, TruncateLen) \o Ellipsis ELSE text

\* C17 (as claimed): a body text of more than 1000 characters is written
\* as its first 1000 characters and "...", in a plain message as well as in
\* an attachment; one of at most 1000 characters is written whole.
C17_LongBodyCut ==
    (pc = "receive" /\ lastIn.kind = "frame" /\ lastIn.frame \in LongFrames) =>
        /\ out # <<>>
        /\ out[Len(out)].kind = "body"
        /\ out[Len(out)].text =
               getAttachmentsText(lastIn.frame.o).title \o Cut(RawBody(lastIn.frame.o))

\* what does hold: attachment text is cut, the text of a plain message is
\* written whole whatever its length
AttachmentBodyCut ==
    (pc = "receive" /\ lastIn.kind = "frame" /\ lastIn.frame \in LongFrames) =>
        /\ out # <<>>
        /\ out[Len(out)].kind = "body"
        /\ out[Len(out)].text =
               IF HasAttachment(lastIn.frame.o)
               THEN getAttachmentsText(lastIn.frame.o).title \o Cut(RawBody(lastIn.frame.o))
               ELSE RawBody(lastIn.frame.o)

\* the last input is a plain message frame
PlainIn(in) == in.kind = "frame" /\ in.frame \in PlainFrames

\* channel name, sender name and thread timestamp of a plain message
Triple(msg) ==
    <<getChannel(msg, g_IdNameMap), getUser(msg, g_IdNameMap), getThreadTs(msg)>>

Suppressed(msg) ==
    \/ Triple(msg)[1] \in MuteChannels
    \/ Triple(msg)[2] \in MuteUsers
    \/ msg.text.s = <<>>

\* C18: printMessage, called for an entry whose channel name is a muted
\* channel, or whose sender name is a muted user, or whose text is empty,
\* writes nothing, whatever RenderState is.
C18_SuppressedWritesNothing ==
    (pc = "receive" /\ PlainIn(lastIn) /\ Suppressed(lastIn.frame.o)) =>
        (out = <<>> /\ calls = 1)

\* a message on the muted channel, from a sender that is not muted, after
\* another channel's message was written
C18_Witness ==
    /\ pc = "receive"
    /\ lastIn = [kind |-> "frame", frame |-> JObj(PureMessage(sC2, sU1, <<"h","i">>, <<"7">>))]
    /\ g_LastChannel = <<"g","e","n">>
    /\ out = <<>> /\ calls = 1

PlainShown(in) == PlainIn(in) /\ ~Suppressed(in.frame.o)

EditIn(in) == in.kind = "frame" /\ in.frame \in EditFrames

AttachmentsOf(message) ==
    IF Has(message, "attachments") THEN message.attachments.a ELSE <<>>

\* C20 (as claimed): onMessageChanged calls printMessage not at all when
\* text and first attachment (service name, author name, title, footer,
\* text) of the message and of the previous message are the same, and at
\* least once when the text or any of these parts differs.
C20_PrintsIffChanged ==
    (pc = "receive" /\ EditIn(lastIn)) =>
        (calls = 0 <=>
            /\ lastIn.frame.o.message.o.text = lastIn.frame.o.previous_message.o.text
            /\ AttachmentsOf(lastIn.frame.o.message.o)
                   = AttachmentsOf(lastIn.frame.o.previous_message.o))

\* what does hold: the calls depend on the text and on what
\* getAttachmentsText returns, which leaves the attachment's title out
PrintsIffRenderedChanged ==
    (pc = "receive" /\ EditIn(lastIn)) =>
        (calls = 0 <=>
            /\ lastIn.frame.o.message.o.text = lastIn.frame.o.previous_message.o.text
            /\ getAttachmentsText(lastIn.frame.o.message.o)
                   = getAttachmentsText(lastIn.frame.o.previous_message.o))

\* the text of an edit's message differs from that of its previous message
TextChanged(in) ==
    in.frame.o.message.o.text # in.frame.o.previous_message.o.text

Annotations(lines) == {lines[i].annotation : i \in {j \in 1..Len(lines) : lines[j].kind = "body"}}

\* the frame after in' is the next one that writes, in the channel of the
\* lines written last
NextWritesInChannel == pc = "receive" /\ out' # <<>> /\ g_LastChannel' = g_LastChannel

\* C21 (as claimed): an edit whose text changed is written with the
\* "(edited)" annotation; an edit of the first attachment only is written
\* without annotation, and the next message written in the same channel
\* gets a header line, whoever its sender is.
C21_EditAnnotated ==
    [][/\ (EditIn(lastIn') /\ TextChanged(lastIn') /\ out' # <<>>)
              => Edited \in Annotations(out')
       /\ (EditIn(lastIn') /\ ~TextChanged(lastIn'))
              => Annotations(out') \subseteq {NoAnnotation}
       /\ (EditIn(lastIn) /\ ~TextChanged(lastIn) /\ out # <<>> /\ NextWritesInChannel)
              => out'[1].kind = "header"]_vars

\* what does hold: the annotations are as claimed, and the header follows
\* when the next sender's name is not empty
HeaderForNamedSender ==
    [][/\ (EditIn(lastIn') /\ TextChanged(lastIn') /\ out' # <<>>)
              => Edited \in Annotations(out')
       /\ (EditIn(lastIn') /\ ~TextChanged(lastIn'))
              => Annotations(out') \subseteq {NoAnnotation}
       /\ (/\ EditIn(lastIn) /\ ~TextChanged(lastIn) /\ out # <<>> /\ NextWritesInChannel
           /\ ~(PlainIn(lastIn') /\ Triple(lastIn'.frame.o)[2] = <<>>))
              => out'[1].kind = "header"]_vars

-----------------------------------------------------------------------------
(* Every message subtype, on a channel that is muted or not *)

sMessage == <<"m","e","s","s","a","g","e">>

Subtyped(msg, subtype) == msg @@ [subtype |-> JStr(subtype)]

BotFrame(channel, text) ==
    [type |-> JStr(sMessage), subtype |-> JStr(<<"b","o","t","_","m","e","s","s","a","g","e">>),
     channel |-> JStr(channel), bot_id |-> JStr(sB1), text |-> JStr(text), ts |-> JStr(<<"2">>)]

FileShareFrame(channel, user, text, file) ==
    Subtyped(PureMessage(channel, user, text, <<"9">>), <<"f","i","l","e","_","s","h","a","r","e">>)
        @@ [file |-> JObj(file)]

FileCommentFrame(channel, user, text) ==
    [type |-> JStr(sMessage), subtype |-> JStr(<<"f","i","l","e","_","c","o","m","m","e","n","t">>),
     channel |-> JStr(channel), ts |-> JStr(<<"9">>),
     file |-> JObj([title |-> JStr(<<"d","o","c">>)]),
     comment |-> JObj([user |-> JStr(user), comment |-> JStr(text)])]

\* an edit by user on channel: the text changed, or the first attachment
EditBy(channel, user, text, attachments) ==
    [type |-> JStr(sMessage), subtype |-> JStr(<<"m","e","s","s","a","g","e","_","c","h","a","n","g","e","d">>),
     channel |-> JStr(channel), ts |-> JStr(<<"4">>),
     message |-> JObj([EditedMessage(text, attachments) EXCEPT !.user = JStr(user)]),
     previous_message |-> JObj([EditedMessage(<<"a">>, <<>>) EXCEPT !.user = JStr(user)])]

RepliedFrame(channel, user, text) ==
    [type |-> JStr(sMessage), subtype |-> JStr(<<"m","e","s","s","a","g","e","_","r","e","p","l","i","e","d">>),
     channel |-> JStr(channel), ts |-> JStr(<<"6">>),
     message |-> JObj([user |-> JStr(user), text |-> JStr(text), ts |-> JStr(<<"3">>),
                       thread_ts |-> JStr(<<"3">>)])]

\* the frames of one channel, sender and text, one or more per subtype
FramesOf(c, u, t) ==
    {PureMessage(c, u, t, <<"7">>),
     Subtyped(PureMessage(c, u, t, <<"7">>), <<"m","e","_","m","e","s","s","a","g","e">>),
     BotFrame(c, t),
     BotFrame(c, t) @@ [attachments |-> JArr(<<JObj(Attachment)>>)],
     FileShareFrame(c, u, t, [title |-> JStr(<<"d","o","c">>)]),
     FileShareFrame(c, u, t, [title |-> JStr(<<"d","o","c">>), preview |-> JStr(<<"a","b","c">>),
                              preview_is_truncated |-> JBool(TRUE)]),
     FileCommentFrame(c, u, t),
     EditBy(c, u, t, <<>>),
     EditBy(c, u, <<"a">>, <<JObj(Attachment)>>),
     Subtyped(PureMessage(c, u, t, <<"7">>), <<"f","i","l","e","_","m","e","n","t","i","o","n">>),
     RepliedFrame(c, u, t)}

SubtypeFrames ==
    UNION {{JObj(msg) : msg \in FramesOf(c, u, t)} :
              c \in {sC1, sC2}, u \in {sU1, sU3}, t \in {<<"h","i">>, <<>>}}

NextSubtypes == \E frame \in SubtypeFrames : Receive(frame)

SpecSubtypes == InitRender /\ [][NextSubtypes]_vars

SubtypeOf(in) == in.frame.o.subtype.s

\* the last input is a message frame of one of the given subtypes
SubtypeIn(in, subtypes) ==
    /\ in.kind = "frame"
    /\ Has(in.frame.o, "subtype")
    /\ SubtypeOf(in) \in subtypes

RenderState == <<g_LastChannel, g_LastUser, g_LastThreadTs>>

\* C22 (as claimed): a message frame of subtype file_mention or
\* message_replied writes nothing and changes neither RenderState nor the
\* Identity Cache.
C22_DroppedSubtypes ==
    [][SubtypeIn(lastIn', {<<"f","i","l","e","_","m","e","n","t","i","o","n">>, <<"m","e","s","s","a","g","e","_","r","e","p","l","i","e","d">>}) =>
          /\ out' = <<>>
          /\ RenderState' = RenderState
          /\ g_IdNameMap' = g_IdNameMap]_vars

\* what does hold: file_mention is dropped
FileMentionDropped ==
    [][SubtypeIn(lastIn', {<<"f","i","l","e","_","m","e","n","t","i","o","n">>}) =>
          /\ out' = <<>> /\ calls' = 0
          /\ RenderState' = RenderState
          /\ g_IdNameMap' = g_IdNameMap]_vars

-----------------------------------------------------------------------------
(* Maintenance frames, under SpecRecv *)

\* the types receiveRoutine has a case for
KnownTypes ==
    UpdateTypes \cup {<<"h","e","l","l","o">>, <<"c","h","a","n","n","e","l","_","j","o","i","n","e","d">>, <<"g","r","o","u","p","_","j","o","i","n","e","d">>, sMessage}

\* the types whose case calls an empty handler
JoinedTypes == {<<"c","h","a","n","n","e","l","_","j","o","i","n","e","d">>, <<"g","r","o","u","p","_","j","o","i","n","e","d">>}

FrameIn(in) == pc = "receive" /\ in.kind = "frame" /\ in.frame.t = "obj"
                  /\ IsA(in.frame.o, "type", "str")

TypeOf(in) == in.frame.o.type.s

EntityOf(in) == in.frame.o[EntityKey(TypeOf(in))].o

\* a maintenance frame that carries its entity's id and name
UpdateIn(in) ==
    /\ FrameIn(in)
    /\ TypeOf(in) \in UpdateTypes
    /\ ~EntityPanics(in.frame.o, EntityKey(TypeOf(in)))

\* a frame that the claim says is quiet
QuietIn(in) ==
    /\ FrameIn(in)
    /\ \/ TypeOf(in) \in UpdateTypes \cup JoinedTypes
       \/ TypeOf(in) \notin KnownTypes

\* C23: bot_added, channel_created, team_join and user_change set the
\* Identity Cache entry of the frame's entity id to the frame's entity name
\* and change no other entry; they, channel_joined, group_joined and every
\* frame of an unrecognized type write no transcript output and leave
\* RenderState unchanged.
C23_MaintenanceFrames ==
    [][/\ UpdateIn(lastIn') =>
             /\ DOMAIN g_IdNameMap' = DOMAIN g_IdNameMap \cup {EntityOf(lastIn').id.s}
             /\ g_IdNameMap'[EntityOf(lastIn').id.s] = EntityOf(lastIn').name.s
             /\ \A id \in DOMAIN g_IdNameMap \ {EntityOf(lastIn').id.s} :
                   g_IdNameMap'[id] = g_IdNameMap[id]
       /\ QuietIn(lastIn') =>
             /\ out' = <<>>
             /\ calls' = 0
             /\ RenderState' = RenderState]_vars

\* after a header for ann, user_change has renamed U1 and kept the rest
C23_Witness ==
    /\ pc = "receive"
    /\ lastIn.kind = "frame"
    /\ lastIn.frame = JObj(EntityFrame(<<"u","s","e","r","_","c","h","a","n","g","e">>, "user", sU1, <<"a","n","n","a">>))
    /\ g_IdNameMap[sU1] = <<"a","n","n","a">>
    /\ g_IdNameMap[sC1] = <<"g","e","n">>
    /\ sU9 \in DOMAIN g_IdNameMap
    /\ g_LastUser = <<"a","n","n">>
    /\ out = <<>>

-----------------------------------------------------------------------------
(* The connections held open, under Spec *)

\* C24: at most one stream connection is open at any time: when the receive
\* loop ends with an error the connection is closed before main sleeps and
\* connects again, over any sequence of connects and failures.
C24_OneConnection ==
    /\ conns \in {0, 1}
    /\ pc \in {"L_Error", "connect"} => conns = 0
    /\ pc = "receive" => conns = 1

\* a connection was open, its receive loop ended with EOF, and main is
\* about to sleep
C24_Witness ==
    /\ pc = "L_Error"
    /\ err.msg = "EOF"
    /\ conns = 0
    /\ g_IdNameMap # EmptyMap

-----------------------------------------------------------------------------
(* Bot messages with one attachment: getAttachmentText on every choice of
   header parts *)

HeaderKeys == <<"service_name", "author_name", "title", "footer">>

\* Att0 with only the header parts of numbers ks, and the body of kind body
AttachmentWith(ks, body) ==
    LET head == [k \in {HeaderKeys[i] : i \in ks} |-> Att0[k]]
    IN  CASE body = "text" -> head @@ [text |-> Att0.text]
          [] body = "fallback" -> head @@ [fallback |-> JStr(<<"f","e","l","l">>)]
          [] OTHER -> head

AttachFrames ==
    {JObj(BotFrame(c, <<"h","i">>) @@ [attachments |-> JArr(<<JObj(AttachmentWith(ks, body))>>)]) :
        c \in {sC1, sC9}, ks \in SUBSET (1..4), body \in {"text", "fallback", "none"}}

NextAttach == \E frame \in AttachFrames : Receive(frame)

SpecAttach == InitRender /\ [][NextAttach]_vars

\* the attachment of the bot message that was received
AttachmentIn(in) == in.frame.o.attachments.a[1].o

\* the header getAttachmentText makes of it
HeaderIn(in) == getAttachmentText(AttachmentIn(in)).title

\* where word first occurs in text, 0 if nowhere
Pos(text, word) ==
    FirstOf({i \in 1..(Len(text) - Len(word) + 1) : Sub(text, i, i + Len(word) - 1) = word})

Supplied(in, ks) == {i \in ks : Has(AttachmentIn(in), HeaderKeys[i])}

\* the body line of the entry is header and then the attachment's text
HeaderThenBody(in, lines, header) ==
    /\ header # <<>> => (lines # <<>> /\ header[Len(header)] = "\n")
    /\ lines # <<>> =>
          lines[Len(lines)].text = header \o getAttachmentText(AttachmentIn(in)).text

\* C25 (as claimed): the attachment header holds service name, author
\* name, title and footer in that order, each exactly when the attachment
\* supplies it; it is empty exactly when none of the four is supplied, and
\* otherwise a newline follows it before the body.
C25_HeaderParts ==
    [][/\ \A i \in Supplied(lastIn', 1..4) :
             Contains(HeaderIn(lastIn'), AttachmentIn(lastIn')[HeaderKeys[i]].s)
       /\ \A i, j \in Supplied(lastIn', 1..4) :
             i < j => Pos(HeaderIn(lastIn'), AttachmentIn(lastIn')[HeaderKeys[i]].s)
                         < Pos(HeaderIn(lastIn'), AttachmentIn(lastIn')[HeaderKeys[j]].s)
       /\ HeaderIn(lastIn') = <<>> <=> Supplied(lastIn', 1..4) = {}
       /\ HeaderThenBody(lastIn', out', HeaderIn(lastIn'))]_vars

\* what does hold: service name, author name and footer, never the title
HeaderWithoutTitle ==
    [][/\ \A i \in Supplied(lastIn', {1, 2, 4}) :
             Contains(HeaderIn(lastIn'), AttachmentIn(lastIn')[HeaderKeys[i]].s)
       /\ \A i, j \in Supplied(lastIn', {1, 2, 4}) :
             i < j => Pos(HeaderIn(lastIn'), AttachmentIn(lastIn')[HeaderKeys[i]].s)
                         < Pos(HeaderIn(lastIn'), AttachmentIn(lastIn')[HeaderKeys[j]].s)
       /\ ~Contains(HeaderIn(lastIn'), Att0.title.s)
       /\ HeaderIn(lastIn') = <<>> <=> Supplied(lastIn', {1, 2, 4}) = {}
       /\ HeaderThenBody(lastIn', out', HeaderIn(lastIn'))]_vars

-----------------------------------------------------------------------------
(* RenderState over suppressed entries, under SpecSubtypes *)

\* a frame was handled and no line was written
NothingWritten == pc = "receive" /\ lastIn'.kind = "frame" /\ out' = <<>>

\* C26 (as claimed): a message frame whose entry printMessage suppresses
\* (muted channel, muted user or empty text) leaves RenderState unchanged,
\* whatever its subtype; RenderState changes only when a line was written.
C26_SuppressedKeepsRenderState ==
    [][NothingWritten => RenderState' = RenderState]_vars

\* the subtypes whose handler clears the last user after printMessage
ClearingIn(in) ==
    \/ SubtypeIn(in, {<<"f","i","l","e","_","s","h","a","r","e">>, <<"f","i","l","e","_","c","o","m","m","e","n","t">>})
    \/ SubtypeIn(in, {<<"b","o","t","_","m","e","s","s","a","g","e">>}) /\ HasAttachment(in.frame.o)
    \/ /\ SubtypeIn(in, {<<"m","e","s","s","a","g","e","_","c","h","a","n","g","e","d">>})
       /\ getAttachmentsText(in.frame.o.message.o)
             # getAttachmentsText(in.frame.o.previous_message.o)

\* what does hold: a suppressed entry keeps the last channel and the last
\* thread timestamp, and keeps the last user unless its handler is one that
\* clears it
SuppressedKeepsChannelAndThread ==
    [][NothingWritten =>
          /\ g_LastChannel' = g_LastChannel
          /\ g_LastThreadTs' = g_LastThreadTs
          /\ g_LastUser' = IF ClearingIn(lastIn') THEN <<>> ELSE g_LastUser]_vars

-----------------------------------------------------------------------------
(* The error log over connections, under Spec *)

\* C27: each successful connect clears the last reported error, so the
\* first failure after a successful connection is always logged, also when
\* its message is the one that was logged before that connection.
C27_FirstFailureLogged ==
    [][/\ (pc = "connect" /\ pc' = "receive") => lastError' = NilError
       /\ (pc = "L_Error" /\ fails = 0) => logs']_vars

\* EOF was logged, a connect succeeded and cleared it, and the EOF that
\* ended the new connection has been logged again
C27_Witness ==
    /\ pc = "connect"
    /\ fails = 1
    /\ cleared # NilError
    /\ cleared.msg = err.msg
    /\ lastIn.kind = "body"
    /\ logs
=============================================================================
